---------------------------- MODULE Spec2Model ----------------------------
(***************************************************************************)
(* Model of cmd/tools/piecestore-benchmark/toflame.py: the converter that  *)
(* turns monkit trace spans into folded flame-graph stacks by probing each *)
(* trace at evenly spaced synthetic sample times.                          *)
(*                                                                         *)
(* The script is one straight-line program over module-level variables.    *)
(* The variables below are those variables, under their source names, plus *)
(* the position of the program (pc) and the cursors of its for-loops.      *)
(*                                                                         *)
(* Numbers.  Timestamps are integer nanoseconds.  The script computes the  *)
(* sample count and the sample times in binary floating point; the model   *)
(* computes them exactly (the count by integer division, a sample time as  *)
(* the fraction num/den).  On the timestamps the model draws its inputs    *)
(* from, every intermediate value of the script is an integer below 2^53   *)
(* or the ratio of two such, and the two computations agree.               *)
(***************************************************************************)
EXTENDS Integers, Sequences, FiniteSets, TLC

----------------------------------------------------------------------------
(* Program constants *)

\* toflame.py:5   SAMPLES_PER_SEC = 10000.0
SAMPLES_PER_SEC == 10000
\* toflame.py:23  (finish - start)/1000000000.0
NsPerSec == 1000000000

----------------------------------------------------------------------------
(* Bounds of the inputs *)

\* traces in the input document
MaxTraces == 2
\* spans in the input document, over all its traces
MaxSpans == 2
\* half the length of the longest trace, in nanoseconds: such a trace is
\* sampled twice, at its start and one Period later
Period == 130000

----------------------------------------------------------------------------
(* Values *)

\* Python's None: the value of start and finish before any span was seen.
None == "None"

\* span ids, and the ids a parent_id may name
Ids == {1, 2}

\* <<start, finish>> of a span.  In a trace that runs from 0 to 2 * Period the
\* five are active at the first sample only, at both samples, at the second
\* sample only, at no sample (the span starts where the trace finishes) and
\* at no instant at all (the span finishes before it starts).
Intervals ==
  {<<0, 0>>, <<0, 2 * Period>>, <<Period, 2 * Period>>,
   <<2 * Period, 2 * Period>>, <<2 * Period, 0>>}

\* the "func" object of a span; the function is named after the span id, so
\* that spans of different traces carrying the same id render alike
FuncOf(id) == [package |-> "pkg", name |-> "F" \o ToString(id)]

\* a span record; "parent_id" is an optional key of the JSON object
RootSpans ==
  {[id |-> d, start |-> v[1], finish |-> v[2], func |-> FuncOf(d)] :
     d \in Ids, v \in Intervals}
ChildSpans ==
  {[id |-> r.id, start |-> r.start, finish |-> r.finish, func |-> r.func,
    parent_id |-> p] : r \in RootSpans, p \in Ids}
Spans == RootSpans \cup ChildSpans

Range(seq) == {seq[k] : k \in DOMAIN seq}

SpanIds(tr) == {tr[k].id : k \in DOMAIN tr}

\* traces of exactly n spans; an id names one span of its trace
RECURSIVE TracesOfLen(_)
TracesOfLen(n) ==
  IF n = 0 THEN {<<>>}
  ELSE UNION {{Append(t, s) : s \in {x \in Spans : x.id \notin SpanIds(t)}} :
                t \in TracesOfLen(n - 1)}

\* the number of spans of each trace of a document: at most MaxTraces
\* numbers whose sum is at most `budget`
RECURSIVE ShapesOfLen(_, _)
ShapesOfLen(n, budget) ==
  IF n = 0 THEN {<<>>}
  ELSE UNION {{<<k>> \o rest : rest \in ShapesOfLen(n - 1, budget - k)} :
                k \in 0..budget}

Shapes == UNION {ShapesOfLen(n, MaxSpans) : n \in 0..MaxTraces}

----------------------------------------------------------------------------
(* Sequences and dictionaries *)

RECURSIVE Reverse(_)
Reverse(seq) ==
  IF seq = <<>> THEN <<>> ELSE Append(Reverse(Tail(seq)), Head(seq))

\* sep.join(parts)
RECURSIVE Join(_, _)
Join(sep, parts) ==
  IF parts = <<>> THEN ""
  ELSE IF Len(parts) = 1 THEN parts[1]
  ELSE parts[1] \o sep \o Join(sep, Tail(parts))

\* dict.get(key): a sequence holding the value, or the empty sequence (None)
DictGet(dict, key) == IF key \in DOMAIN dict THEN <<dict[key]>> ELSE <<>>

\* {span["id"]: span for span in spans}: a later span replaces an earlier one
IndexById(spans) ==
  [d \in SpanIds(spans) |->
     spans[CHOOSE k \in DOMAIN spans :
             /\ spans[k].id = d
             /\ \A j \in DOMAIN spans : spans[j].id = d => j <= k]]


----------------------------------------------------------------------------
(* The state of the program *)

VARIABLES
  alltraces,          \* line 7: the decoded input, a list of traces
  stacks,             \* line 9: stack name -> count, in insertion order
  ti,                 \* position of "for trace in alltraces" (line 11)
  allspans_by_id,     \* line 12
  start,              \* line 14
  finish,             \* line 15
  samples_per_trace,  \* line 24
  i,                  \* line 26: the next value of i in range(samples_per_trace)
  sample_time,        \* line 27
  spans_by_id,        \* line 29
  parents,            \* line 30
  leaves,             \* line 38
  li,                 \* position of "for span in leaves" (line 43)
  stack,              \* line 44, leaf first; rebound to a key by line 63
  walked,             \* line 45
  stack_name,         \* line 58
  output,             \* the lines printed so far (line 64)
  pc                  \* "trace", "sample", "leaf", "print", "done", "failed"

vars == <<alltraces, stacks, ti, allspans_by_id, start, finish,
          samples_per_trace, i, sample_time, spans_by_id, parents, leaves,
          li, stack, walked, stack_name, output, pc>>

traceVars == <<allspans_by_id, start, finish, samples_per_trace>>
sampleVars == <<sample_time, spans_by_id, parents, leaves>>
leafVars == <<stack, walked, stack_name>>

\* the trace the outer loop is at
trace == alltraces[ti]

----------------------------------------------------------------------------
(* Exact fractions: a sample time is num/den with den > 0 *)

IntGtFrac(n, t) == n * t.den > t.num
IntLtFrac(n, t) == n * t.den < t.num
FracLt(a, b) == a.num * b.den < b.num * a.den
FracEqInt(t, n) == t.num = n * t.den

----------------------------------------------------------------------------
(* Lines 14-24: the envelope of a trace and its number of samples *)

\* lines 14-18: start is the least span start, None when the trace is empty
TraceStart(tr) ==
  IF tr = <<>> THEN None
  ELSE CHOOSE m \in {tr[k].start : k \in DOMAIN tr} :
         \A k \in DOMAIN tr : m <= tr[k].start

\* lines 15-20: finish is the greatest span finish, None when the trace is empty
TraceFinish(tr) ==
  IF tr = <<>> THEN None
  ELSE CHOOSE m \in {tr[k].finish : k \in DOMAIN tr} :
         \A k \in DOMAIN tr : m >= tr[k].finish

\* the spans of all the traces of a document, in document order
RECURSIVE Flatten(_)
Flatten(traces) ==
  IF traces = <<>> THEN <<>> ELSE Head(traces) \o Flatten(Tail(traces))

\* variant of AllSpansById: one index over the spans of every trace
AllSpansByIdGlobal(tr) == IndexById(Flatten(alltraces))

\* lines 12, 21: the index of the spans of this trace, rebuilt for each trace
AllSpansById(tr) == IndexById(tr)

\* int(x): truncation toward zero of the quotient n/d, d > 0
IntTrunc(n, d) == IF n >= 0 THEN n \div d ELSE -((-n) \div d)

\* variant of SamplesPerTrace: round(x) in place of int(x)
SamplesPerTraceRounded(start_, finish_) ==
  IntTrunc(2 * (finish_ - start_) + NsPerSec \div SAMPLES_PER_SEC,
           2 * (NsPerSec \div SAMPLES_PER_SEC))

\* lines 23-24: int((finish - start)/1000000000.0 * SAMPLES_PER_SEC)
SamplesPerTrace(start_, finish_) ==
  IntTrunc(finish_ - start_, NsPerSec \div SAMPLES_PER_SEC)

----------------------------------------------------------------------------
(* Lines 27-41: one sample point, its active spans and its leaves *)

\* variant of SampleTime: the samples are numbered from 1, range(1, n + 1)
SampleTimeFromOne(start_, finish_, count, k) ==
  [num |-> start_ * count + (k + 1) * (finish_ - start_), den |-> count]

\* line 27: start + i * ((finish-start)/samples_per_trace)
SampleTime(start_, finish_, count, k) ==
  [num |-> start_ * count + k * (finish_ - start_), den |-> count]

\* variant of Overlaps: the bounds are exclusive (>= and <= on line 33)
OverlapsExclusive(span, t) ==
  IntLtFrac(span.start, t) /\ IntGtFrac(span.finish, t)

\* line 33: a span is skipped when it starts after t or finishes before t
Overlaps(span, t) ==
  ~(IntGtFrac(span.start, t) \/ IntLtFrac(span.finish, t))

ActiveSpans(tr, t) == SelectSeq(tr, LAMBDA span : Overlaps(span, t))

\* lines 29, 34: the spans of the trace that overlap t, by id
SpansById(tr, t) == IndexById(ActiveSpans(tr, t))

\* lines 30, 35-36: the parent ids named by the spans that overlap t
Parents(tr, t) ==
  {span.parent_id :
     span \in {x \in Range(ActiveSpans(tr, t)) : "parent_id" \in DOMAIN x}}

\* the keys of {span["id"]: span for span in spans} in insertion order
RECURSIVE KeyOrder(_)
KeyOrder(spans) ==
  IF spans = <<>> THEN <<>>
  ELSE LET front == SubSeq(spans, 1, Len(spans) - 1)
           last == spans[Len(spans)]
       IN IF last.id \in SpanIds(front) THEN KeyOrder(front)
          ELSE Append(KeyOrder(front), last.id)

\* lines 38-41: the active spans whose id no active span names as parent
Leaves(tr, t) ==
  LET byId == SpansById(tr, t)
      keys == SelectSeq(KeyOrder(ActiveSpans(tr, t)),
                        LAMBDA d : d \notin Parents(tr, t))
  IN [k \in 1..Len(keys) |-> byId[keys[k]]]

----------------------------------------------------------------------------
(* Lines 44-60: the walk up the parent chain and the name of the stack *)

\* lines 51-53: the parent among the active spans, else among all the spans
\* of the trace; a sequence of one span, or empty when there is none
LookupParent(span, active_idx, all_idx) ==
  IF DictGet(active_idx, span.parent_id) # <<>>
  THEN DictGet(active_idx, span.parent_id)
  ELSE DictGet(all_idx, span.parent_id)

\* variant of walk: the frame is pushed before the visited test
RECURSIVE walkPushFirst(_, _, _, _)
walkPushFirst(span, acc, active_idx, all_idx) ==
  LET pushed == Append(acc.stack, <<span, span.id \in DOMAIN active_idx>>)
  IN IF span.id \in acc.walked THEN [stack |-> pushed, walked |-> acc.walked]
     ELSE LET next == [stack |-> pushed, walked |-> acc.walked \cup {span.id}]
          IN IF "parent_id" \in DOMAIN span
             THEN LET parent == LookupParent(span, active_idx, all_idx)
                  IN IF parent # <<>>
                     THEN walkPushFirst(parent[1], next, active_idx, all_idx)
                     ELSE next
             ELSE next

\* variant of walk: the flag of a frame is taken from the index of all spans
RECURSIVE walkFlagFromAll(_, _, _, _)
walkFlagFromAll(span, acc, active_idx, all_idx) ==
  IF span.id \in acc.walked THEN acc
  ELSE LET next == [stack |-> Append(acc.stack,
                                     <<span, span.id \in DOMAIN all_idx>>),
                    walked |-> acc.walked \cup {span.id}]
       IN IF "parent_id" \in DOMAIN span
          THEN LET parent == LookupParent(span, active_idx, all_idx)
               IN IF parent # <<>>
                  THEN walkFlagFromAll(parent[1], next, active_idx, all_idx)
                  ELSE next
          ELSE next

\* lines 46-55: walk(span), on the pair of stack and walked it extends
RECURSIVE walk(_, _, _, _)
walk(span, acc, active_idx, all_idx) ==
  IF span.id \in acc.walked THEN acc
  ELSE LET next == [stack |-> Append(acc.stack,
                                     <<span, span.id \in DOMAIN active_idx>>),
                    walked |-> acc.walked \cup {span.id}]
       IN IF "parent_id" \in DOMAIN span
          THEN LET parent == LookupParent(span, active_idx, all_idx)
               IN IF parent # <<>>
                  THEN walk(parent[1], next, active_idx, all_idx)
                  ELSE next
          ELSE next

\* lines 44-45, 57: a fresh stack and walked set, then walk(span)
WalkFrom(span, active_idx, all_idx) ==
  walk(span, [stack |-> <<>>, walked |-> {}], active_idx, all_idx)

\* lines 58-59: "[%s]%s.%s" % (active and "active" or "inactive", package, name)
FrameName(frame) ==
  "[" \o (IF frame[2] THEN "active" ELSE "inactive") \o "]"
      \o frame[1].func.package \o "." \o frame[1].func.name

\* variant of StackName: the frames are joined as pushed, without reversed()
StackNameLeafFirst(stack_) ==
  Join(";", [k \in 1..Len(stack_) |-> FrameName(stack_[k])])

\* lines 58-60: ";".join(... for (span, active) in reversed(stack))
StackName(stack_) ==
  LET rev == Reverse(stack_)
  IN Join(";", [k \in 1..Len(rev) |-> FrameName(rev[k])])

----------------------------------------------------------------------------
(* Lines 9, 61: the table of counts, a dict in insertion order *)

StackKeys(table) == {table[k].stack : k \in DOMAIN table}

\* stacks.get(name, 0)
CountOf(table, name) ==
  IF name \in StackKeys(table)
  THEN table[CHOOSE k \in DOMAIN table : table[k].stack = name].count
  ELSE 0

\* variant of Bump: the table is rebound to a dict holding this entry alone
BumpRebind(table, name) ==
  <<[stack |-> name, count |-> CountOf(table, name) + 1]>>

\* variant of Bump: stacks[stack_name] = 1, the earlier count is not read
BumpOverwrite(table, name) ==
  IF name \in StackKeys(table)
  THEN [k \in DOMAIN table |->
          IF table[k].stack = name THEN [stack |-> name, count |-> 1]
          ELSE table[k]]
  ELSE Append(table, [stack |-> name, count |-> 1])

\* line 61: stacks[stack_name] = stacks.get(stack_name, 0) + 1
Bump(table, name) ==
  IF name \in StackKeys(table)
  THEN [k \in DOMAIN table |->
          IF table[k].stack = name
          THEN [stack |-> name, count |-> table[k].count + 1]
          ELSE table[k]]
  ELSE Append(table, [stack |-> name, count |-> CountOf(table, name) + 1])

\* line 64: print(stack, count)
OutputLine(entry) == entry.stack \o " " \o ToString(entry.count)

----------------------------------------------------------------------------
(* Lines 9-61 as a function of the document: the table the loops build *)

\* lines 43-60 at sample k of a trace: the stack names of its leaves, in order
SampleStackNames(tr, k) ==
  LET t == SampleTime(TraceStart(tr), TraceFinish(tr),
                      SamplesPerTrace(TraceStart(tr), TraceFinish(tr)), k)
      lv == Leaves(tr, t)
  IN [n \in 1..Len(lv) |->
        StackName(WalkFrom(lv[n], SpansById(tr, t), AllSpansById(tr)).stack)]

\* line 61 for each name in turn
RECURSIVE BumpAll(_, _)
BumpAll(table, names) ==
  IF names = <<>> THEN table
  ELSE BumpAll(Bump(table, Head(names)), Tail(names))

\* lines 26-61 from sample k on, for a trace with spans
RECURSIVE RunSamples(_, _, _)
RunSamples(table, tr, k) ==
  IF k < SamplesPerTrace(TraceStart(tr), TraceFinish(tr))
  THEN RunSamples(BumpAll(table, SampleStackNames(tr, k)), tr, k + 1)
  ELSE table

\* lines 11-61 over traces that all have spans
RECURSIVE RunTraces(_, _)
RunTraces(table, traces) ==
  IF traces = <<>> THEN table
  ELSE RunTraces(RunSamples(table, Head(traces), 0), Tail(traces))

----------------------------------------------------------------------------
(* The steps of the program *)

\* line 7: json.loads reads a document of the given shape; `read` is the
\* part of the document read so far
RECURSIVE json_loads(_, _)
json_loads(shape, read) ==
  IF shape = <<>> THEN alltraces = read
  ELSE \E tr \in TracesOfLen(Head(shape)) :
         json_loads(Tail(shape), Append(read, tr))

\* lines 7-9: the input is loaded and the table is empty; the other names are
\* not bound yet
Init ==
  /\ \E shape \in Shapes : json_loads(shape, <<>>)
  /\ stacks = <<>>
  /\ ti = 1
  /\ allspans_by_id = <<>>
  /\ start = None
  /\ finish = None
  /\ samples_per_trace = None
  /\ i = 0
  /\ sample_time = None
  /\ spans_by_id = <<>>
  /\ parents = {}
  /\ leaves = <<>>
  /\ li = 1
  /\ stack = <<>>
  /\ walked = {}
  /\ stack_name = None
  /\ output = <<>>
  /\ pc = "trace"

\* lines 11-24 for a trace with spans: index, envelope, number of samples
BeginTrace ==
  /\ pc = "trace"
  /\ ti <= Len(alltraces)
  /\ trace # <<>>
  /\ allspans_by_id' = AllSpansById(trace)
  /\ start' = TraceStart(trace)
  /\ finish' = TraceFinish(trace)
  /\ samples_per_trace' = SamplesPerTrace(TraceStart(trace), TraceFinish(trace))
  /\ i' = 0
  /\ pc' = "sample"
  /\ UNCHANGED <<alltraces, stacks, ti, sampleVars, li, leafVars, output>>

\* variant of TraceError: a trace without spans is passed over
TraceSkipped ==
  /\ pc = "trace"
  /\ ti <= Len(alltraces)
  /\ trace = <<>>
  /\ allspans_by_id' = AllSpansById(trace)
  /\ start' = TraceStart(trace)
  /\ finish' = TraceFinish(trace)
  /\ ti' = ti + 1
  /\ UNCHANGED <<alltraces, stacks, samples_per_trace, i, sampleVars, li,
                 leafVars, output, pc>>

\* lines 11-23 for a trace without spans: start and finish stay None and
\* "finish - start" raises TypeError, which ends the program
TraceError ==
  /\ pc = "trace"
  /\ ti <= Len(alltraces)
  /\ trace = <<>>
  /\ allspans_by_id' = AllSpansById(trace)
  /\ start' = TraceStart(trace)
  /\ finish' = TraceFinish(trace)
  /\ pc' = "failed"
  /\ UNCHANGED <<alltraces, stacks, ti, samples_per_trace, i, sampleVars, li,
                 leafVars, output>>

\* lines 26-41: the next sample time, the spans active at it and its leaves
BeginSample ==
  /\ pc = "sample"
  /\ i < samples_per_trace
  /\ LET t == SampleTime(start, finish, samples_per_trace, i)
     IN /\ sample_time' = t
        /\ spans_by_id' = SpansById(trace, t)
        /\ parents' = Parents(trace, t)
        /\ leaves' = Leaves(trace, t)
  /\ li' = 1
  /\ pc' = "leaf"
  /\ UNCHANGED <<alltraces, stacks, ti, traceVars, i, leafVars, output>>

\* line 26: range(samples_per_trace) is exhausted; on to the next trace
EndTrace ==
  /\ pc = "sample"
  /\ ~(i < samples_per_trace)
  /\ ti' = ti + 1
  /\ pc' = "trace"
  /\ UNCHANGED <<alltraces, stacks, traceVars, i, sampleVars, li, leafVars,
                 output>>

\* lines 43-61 for one leaf: walk, name the stack, count it
WalkLeaf ==
  /\ pc = "leaf"
  /\ li <= Len(leaves)
  /\ LET w == WalkFrom(leaves[li], spans_by_id, allspans_by_id)
     IN /\ stack' = w.stack
        /\ walked' = w.walked
        /\ stack_name' = StackName(w.stack)
        /\ stacks' = Bump(stacks, StackName(w.stack))
  /\ li' = li + 1
  /\ UNCHANGED <<alltraces, ti, traceVars, i, sampleVars, output, pc>>

\* line 43: the leaves are exhausted; on to the next sample
EndSample ==
  /\ pc = "leaf"
  /\ ~(li <= Len(leaves))
  /\ i' = i + 1
  /\ pc' = "sample"
  /\ UNCHANGED <<alltraces, stacks, ti, traceVars, sampleVars, li, leafVars,
                 output>>

\* line 11: the traces are exhausted; on to the output loop
EndTraces ==
  /\ pc = "trace"
  /\ ~(ti <= Len(alltraces))
  /\ pc' = "print"
  /\ UNCHANGED <<alltraces, stacks, ti, traceVars, i, sampleVars, li, leafVars,
                 output>>

\* lines 63-64: print the next entry of the table; the loop binds "stack"
PrintLine ==
  /\ pc = "print"
  /\ Len(output) < Len(stacks)
  /\ stack' = stacks[Len(output) + 1].stack
  /\ output' = Append(output, OutputLine(stacks[Len(output) + 1]))
  /\ UNCHANGED <<alltraces, stacks, ti, traceVars, i, sampleVars, li, walked,
                 stack_name, pc>>

\* line 63: the table is exhausted; the program ends
Exit ==
  /\ pc = "print"
  /\ ~(Len(output) < Len(stacks))
  /\ pc' = "done"
  /\ UNCHANGED <<alltraces, stacks, ti, traceVars, i, sampleVars, li, leafVars,
                 output>>

Next ==
  \/ BeginTrace
  \/ TraceError
  \/ BeginSample
  \/ EndTrace
  \/ WalkLeaf
  \/ EndSample
  \/ EndTraces
  \/ PrintLine
  \/ Exit

Spec == Init /\ [][Next]_vars

----------------------------------------------------------------------------
(* Properties *)

\* a walk has just been made: stack, walked and stack_name are those of the
\* leaf before the cursor, at the sample time held in sample_time
Walked == pc = "leaf" /\ li > 1

\* the leaf the last walk started from
walkedLeaf == leaves[li - 1]

\* the frames of the last walk, root first, as stack_name lists them
frames == Reverse(stack)

\* ids carried by spans of traces other than the one being processed
OtherTraceIds ==
  UNION {SpanIds(alltraces[u]) : u \in DOMAIN alltraces \ {ti}}

\* the frame at position k (root first) names a parent that no span of this
\* trace carries and that a span of another trace carries
CrossTraceParent(k) ==
  /\ "parent_id" \in DOMAIN frames[k][1]
  /\ frames[k][1].parent_id \notin SpanIds(trace)
  /\ frames[k][1].parent_id \in OtherTraceIds

----------------------------------------------------------------------------
(* Sample counts and sample times *)

\* nanoseconds per sample at the fixed rate
NsPerSample == NsPerSec \div SAMPLES_PER_SEC

\* the trace being processed spans start..finish: the least span start and
\* the greatest span finish
EnvelopeIsMinMax ==
  /\ \E k \in DOMAIN trace : trace[k].start = start
  /\ \A k \in DOMAIN trace : trace[k].start >= start
  /\ \E k \in DOMAIN trace : trace[k].finish = finish
  /\ \A k \in DOMAIN trace : trace[k].finish <= finish

\* the sample loop of the trace being processed is over
SamplesExhausted == pc = "sample" /\ ~(i < samples_per_trace)

SampleTimeIsLinear ==
  sample_time.num * samples_per_trace =
    (start * samples_per_trace + i * (finish - start)) * sample_time.den

----------------------------------------------------------------------------
(* The table of counts *)

RECURSIVE SumCounts(_)
SumCounts(table) ==
  IF table = <<>> THEN 0 ELSE Head(table).count + SumCounts(Tail(table))

\* the leaves of the samples k, k+1, ... below `upto` of a trace with spans
RECURSIVE LeafTotal(_, _, _)
LeafTotal(tr, k, upto) ==
  IF k < upto
  THEN Len(Leaves(tr, SampleTime(TraceStart(tr), TraceFinish(tr),
                                 SamplesPerTrace(TraceStart(tr), TraceFinish(tr)),
                                 k)))
         + LeafTotal(tr, k + 1, upto)
  ELSE 0

\* the leaves of all the samples of the first n traces
RECURSIVE LeafTotalOfTraces(_)
LeafTotalOfTraces(n) ==
  IF n = 0 THEN 0
  ELSE LeafTotalOfTraces(n - 1)
         + LeafTotal(alltraces[n], 0,
                     SamplesPerTrace(TraceStart(alltraces[n]),
                                     TraceFinish(alltraces[n])))

\* the (trace, sample point, leaf) triples processed so far
Processed ==
  LeafTotalOfTraces(ti - 1)
    + (IF pc \in {"sample", "leaf"} THEN LeafTotal(trace, 0, i) ELSE 0)
    + (IF pc = "leaf" THEN li - 1 ELSE 0)

AllKeys == StackKeys(stacks) \cup StackKeys(stacks')

\* C4: every leaf at every sample point of every trace adds exactly 1 to
\* exactly one stack key and leaves the other counts unchanged, so the counts
\* of the table always sum to the number of (trace, sample point, leaf)
\* triples processed so far, and at the end every distinct key is printed on
\* exactly one line, with its count.
C4_CountConservation ==
  /\ [](/\ SumCounts(stacks) = Processed
        /\ Cardinality(StackKeys(stacks)) = Len(stacks)
        /\ pc = "done" =>
             /\ Len(output) = Cardinality(StackKeys(stacks))
             /\ \A key \in StackKeys(stacks) :
                  Cardinality({n \in DOMAIN output :
                     output[n] = key \o " " \o ToString(CountOf(stacks, key))})
                    = 1)
  /\ [][IF pc = "leaf" /\ li' = li + 1
        THEN /\ CountOf(stacks', stack_name') = CountOf(stacks, stack_name') + 1
             /\ \A key \in AllKeys \ {stack_name'} :
                  CountOf(stacks', key) = CountOf(stacks, key)
        ELSE stacks' = stacks]_vars

\* C4 witness: the run is over, two traces were counted, and a key was
\* counted more than once beside another key
C4_Witness ==
  /\ pc = "done"
  /\ Len(alltraces) = 2
  /\ Len(output) >= 2
  /\ \E key \in StackKeys(stacks) : CountOf(stacks, key) >= 2

----------------------------------------------------------------------------
(* The frames of a stack *)

\* span overlaps the sample time of the state, both bounds included
OverlapsSample(span) ==
  /\ span.start * sample_time.den <= sample_time.num
  /\ sample_time.num <= span.finish * sample_time.den

\* the frame of a span as the key renders it when the flag is `active`
Rendered(span, active) ==
  (IF active THEN "[active]" ELSE "[inactive]")
    \o span.func.package \o "." \o span.func.name

\* C5: in every stack key a frame reads "[active]" exactly when its span
\* overlaps the sample time of the stack (start <= t <= finish); an ancestor
\* that does not overlap it reads "[inactive]" and stays in the stack.
C5_ActiveFlags ==
  Walked =>
    /\ \A k \in DOMAIN frames : frames[k][2] <=> OverlapsSample(frames[k][1])
    /\ stack_name =
         Join(";", [k \in 1..Len(frames) |->
                      Rendered(frames[k][1], OverlapsSample(frames[k][1]))])

\* C5 witness: a stack whose root frame is an ancestor that is not active
C5_Witness ==
  /\ Walked
  /\ Len(frames) >= 2
  /\ ~OverlapsSample(frames[1][1])
  /\ frames[1][1].id = frames[2][1].parent_id

\* the span of this trace that carries the id, if any
SpanOfId(d) == {x \in Range(trace) : x.id = d}

\* C6: every stack key is the parent chain of the leaf, root first: the last
\* frame is the probed leaf, each frame is the span named by the parent_id of
\* the next frame, and the first frame is a span without parent_id, or whose
\* parent_id names no span, or whose parent was already visited in this walk.
C6_ParentChain ==
  Walked =>
    /\ Len(frames) >= 1
    /\ frames[Len(frames)][1] = walkedLeaf
    /\ \A k \in 1..(Len(frames) - 1) :
         /\ "parent_id" \in DOMAIN frames[k + 1][1]
         /\ SpanOfId(frames[k + 1][1].parent_id) = {frames[k][1]}
    /\ \/ "parent_id" \notin DOMAIN frames[1][1]
       \/ SpanOfId(frames[1][1].parent_id) = {}
       \/ frames[1][1].parent_id \in {frames[k][1].id : k \in DOMAIN frames}
    /\ stack_name =
         Join(";", [k \in 1..Len(frames) |-> Rendered(frames[k][1], frames[k][2])])

\* C6 witness: a chain of a leaf and its parent, the parent being a root
C6_Witness ==
  /\ Walked
  /\ Len(frames) = 2
  /\ "parent_id" \notin DOMAIN frames[1][1]
  /\ frames[1][1].func # frames[2][1].func

\* C10: every walk ends, also in a trace whose parent links form a cycle or
\* whose span names itself as parent; the stack holds each span id at most
\* once, so it has at most as many frames as the trace has span ids, and the
\* walk stops at the span whose parent was already visited.
C10_NoRevisit ==
  Walked =>
    /\ \A j, k \in DOMAIN frames : frames[j][1].id = frames[k][1].id => j = k
    /\ Len(frames) <= Cardinality(SpanIds(trace))
    /\ walked = {frames[k][1].id : k \in DOMAIN frames}
    /\ ("parent_id" \in DOMAIN frames[1][1]
          /\ SpanOfId(frames[1][1].parent_id) # {})
         => frames[1][1].parent_id \in walked

\* C10 witness: a walk around a cycle of two spans, stopped where it closes
C10_Witness ==
  /\ Walked
  /\ Len(frames) = 2
  /\ "parent_id" \in DOMAIN frames[1][1]
  /\ frames[1][1].parent_id = frames[2][1].id

----------------------------------------------------------------------------
(* Leaves *)

\* the spans of the trace being processed that overlap the sample time
ActiveNow == {x \in Range(trace) : OverlapsSample(x)}

\* C9: at every sample point the leaves are exactly the spans of the trace
\* with start <= t <= finish, both bounds included, whose id is not the
\* parent_id of a span of the trace that is active at t too; a sample point
\* without such a span contributes no stack and raises no error.
C9_Leaves ==
  pc = "leaf" =>
    /\ Range(leaves) =
         {x \in ActiveNow :
            ~\E y \in ActiveNow :
               "parent_id" \in DOMAIN y /\ y.parent_id = x.id}
    /\ Cardinality(Range(leaves)) = Len(leaves)
    /\ leaves = <<>> =>
         /\ ~ENABLED WalkLeaf
         /\ ENABLED EndSample
         /\ SumCounts(stacks) = Processed

\* C9 witness: a leaf that finishes at the sample time, beside an active span
\* that is no leaf because the leaf names it as parent
C9_Witness ==
  /\ pc = "leaf"
  /\ \E x \in Range(leaves) :
       /\ FracEqInt(sample_time, x.finish)
       /\ "parent_id" \in DOMAIN x
       /\ \E y \in ActiveNow : y.id = x.parent_id /\ y \notin Range(leaves)

----------------------------------------------------------------------------
(* Failure and order of the traces *)

HasEmptyTrace == \E u \in DOMAIN alltraces : alltraces[u] = <<>>

\* the program has no step left.  With a leaf left to walk it has one: the
\* test of WalkLeaf is that a leaf is left, and walking it cannot fail.
Stopped == ~(pc = "leaf" /\ li <= Len(leaves)) /\ ~ENABLED Next

\* C7: if a trace of the input has no spans, the run fails with an error
\* and prints no line at all, not even for stacks counted from the traces
\* processed before the empty one: such a run never reaches the output
\* loop, it stops nowhere but in the failure, and the failure is final.
C7_EmptyTraceFails ==
  /\ HasEmptyTrace =>
       /\ output = <<>>
       /\ pc \notin {"print", "done"}
       /\ Stopped => pc = "failed"
  /\ pc = "failed" => alltraces[ti] = <<>> /\ Stopped

\* C7 witness: the run failed with stacks counted and nothing printed
C7_Witness ==
  /\ pc = "failed"
  /\ stacks # <<>>
  /\ output = <<>>

\* the table as a set of (key, count) pairs, without its insertion order
TableOf(table) == {<<table[k].stack, table[k].count>> : k \in DOMAIN table}

Permuted(traces, p) == [k \in DOMAIN traces |-> traces[p[k]]]

\* C8: the final table does not depend on the order of the traces: every
\* permutation of the list of traces ends with the same keys and the same
\* count for each key, the counts of a key produced by several traces being
\* summed in one entry.
C8_OrderIndependent ==
  pc \in {"print", "done"} =>
    \A p \in Permutations(DOMAIN alltraces) :
      TableOf(RunTraces(<<>>, Permuted(alltraces, p))) = TableOf(stacks)

\* C8 witness: two traces that both add to the table and that, swapped,
\* fill it in another order
C8_Witness ==
  /\ pc = "done"
  /\ Len(alltraces) = 2
  /\ RunTraces(<<>>, <<alltraces[1]>>) # <<>>
  /\ RunTraces(<<>>, <<alltraces[2]>>) # <<>>
  /\ RunTraces(<<>>, <<alltraces[2], alltraces[1]>>) # stacks

============================================================================
